---- MODULE Spec2Model ----
(***************************************************************************)
(* Model of the answer-equivalence core of dailyintegral (app/utils.py):   *)
(*   is_equivalent_up_to_constant,  parse_latex_safely,  sympy_to_latex,   *)
(* and of the two handlers that grade an answer with them (app/api.py,     *)
(* app/routes.py).                                                         *)
(*                                                                         *)
(* Symbolic values are polynomials over the symbols x, y and the reserved  *)
(* symbol C, kept as coefficient maps (the form SymPy's automatic          *)
(* evaluation gives sums of monomials), plus equations lhs = rhs, the      *)
(* other kind of value the LaTeX parser returns.  LaTeX text is a sequence *)
(* of one-character strings.                                               *)
(***************************************************************************)
EXTENDS Integers, Sequences, FiniteSets, TLC

VARIABLES
    pc,                 \* position of the running call ("idle" between calls)
    user_answer,        \* is_equivalent_up_to_constant: first argument
    correct_answer,     \* is_equivalent_up_to_constant: second argument
    var,                \* the differentiation variable picked at utils.py:43
    difference,         \* simplified difference of the derivatives (utils.py:49)
    expr_difference,    \* simplified direct difference (utils.py:61)
    raised,             \* the operation that raised inside the try block, or "none"
    escaped,            \* TRUE when an exception left the function
    diffCalled,         \* sp.diff has been called in this call
    simplifyCalled,     \* sp.simplify has been called in this call
    retval,             \* "pending", "true" or "false"
    latex_in,           \* parse_latex_safely: the argument as passed
    latex_str,          \* parse_latex_safely: the local latex_str
    parser_arg,         \* the text handed to parse_latex, <<>> before the call
    parserCalled,       \* parse_latex has been invoked in this call
    parse_raised,       \* what raised inside the try block, or "none"
    parse_escaped,      \* TRUE when an exception left parse_latex_safely
    parse_ret,          \* "pending", "None" or "expr"
    norm_in,            \* the normalisation steps of parse_latex_safely: the text given
    norm_once,          \* what the steps make of norm_in
    norm_twice,         \* what the steps make of the text of norm_once
    expr,               \* sympy_to_latex: the argument
    expr_without_C,     \* sympy_to_latex: expr.subs(C_symbol, 0) (utils.py:161)
    C_coeff,            \* sympy_to_latex: expr.coeff(C_symbol, 1) (utils.py:162)
    render_raised,      \* what raised inside the try block of sympy_to_latex, or "none"
    render_ret,         \* the string sympy_to_latex returns, <<>> while pending
    answer,             \* the request: submission.answer, the learner's text
    solution,           \* the request: submission.problem.solution, the reference text
    response,           \* the response of the handler, NoResponse while pending
    round,              \* 1 for a first evaluation, 2 for the one that follows it
    first_var,          \* the variable the first evaluation picked
    first_retval        \* the verdict of the first evaluation

equivVars == <<user_answer, correct_answer, var, difference, expr_difference,
               raised, escaped, diffCalled, simplifyCalled, retval>>
parseVars == <<latex_in, latex_str, parser_arg, parserCalled, parse_raised,
               parse_escaped, parse_ret>>
normVars == <<norm_in, norm_once, norm_twice>>
renderVars == <<expr, expr_without_C, C_coeff, render_raised, render_ret>>
submitVars == <<answer, solution, response>>
roundVars == <<round, first_var, first_retval>>
otherVars == <<normVars, renderVars, submitVars, roundVars>>
vars == <<pc, equivVars, parseVars, otherVars>>

(***************************************************************************)
(* Symbolic values                                                         *)
(***************************************************************************)
Symbols == {"x", "y", "C"}

\* sp.Symbol('C'), the reserved constant of integration
CSymbol == "C"

\* the exponents of x^a y^b C^c
Exps(a, b, c) == [s \in Symbols |-> IF s = "x" THEN a ELSE IF s = "y" THEN b ELSE c]

\* the monomials of the modelled fragment (closed under differentiation),
\* each with its exponents
MonoExps ==
    [one |-> Exps(0,0,0), x |-> Exps(1,0,0), y |-> Exps(0,1,0), C |-> Exps(0,0,1),
     xx |-> Exps(2,0,0), xy |-> Exps(1,1,0), xC |-> Exps(1,0,1), CC |-> Exps(0,0,2)]

Monos == DOMAIN MonoExps

One == "one"

Zero == [m \in Monos |-> 0]
Term(m) == [n \in Monos |-> IF n = m THEN 1 ELSE 0]
PAdd(p, q) == [m \in Monos |-> p[m] + q[m]]
PSub(p, q) == [m \in Monos |-> p[m] - q[m]]

\* number of monomial terms an argument is built from
MaxTerms == 2

RECURSIVE Sums(_)
Sums(k) == IF k = 0 THEN {Zero}
           ELSE LET S == Sums(k - 1) IN S \cup {PAdd(p, Term(m)) : p \in S, m \in Monos}

\* the kinds of value: None, an object sympify rejects, an expression, an
\* equation; "drel" is an unevaluated Derivative of an equation, "opaque" a
\* non-zero sum that contains such a Derivative, "raise" an exception
NoneValue == [kind |-> "none", lhs |-> Zero, rhs |-> Zero]
BadValue == [kind |-> "bad", lhs |-> Zero, rhs |-> Zero]
Raise == [kind |-> "raise", lhs |-> Zero, rhs |-> Zero]
Expr(p) == [kind |-> "expr", lhs |-> p, rhs |-> Zero]
Rel(l, r) == [kind |-> "rel", lhs |-> l, rhs |-> r]
DRel(l, r) == [kind |-> "drel", lhs |-> l, rhs |-> r]
Opaque == [kind |-> "opaque", lhs |-> Zero, rhs |-> Zero]

\* the arguments a call is made with
Arguments ==
    {NoneValue, BadValue}
    \cup {Expr(p) : p \in Sums(MaxTerms)}
    \cup {Rel(Term("y"), r) : r \in Sums(1)}

IsPresent(e) == e.kind \in {"expr", "rel"}

PolySymbols(p) == {s \in Symbols : \E m \in Monos : p[m] # 0 /\ MonoExps[m][s] > 0}

\* .free_symbols
free_symbols(e) == PolySymbols(e.lhs) \cup PolySymbols(e.rhs)

\* d/dv of a polynomial
PDiff(p, v) ==
    [m \in Monos |->
        LET up == [MonoExps[m] EXCEPT ![v] = @ + 1]
            ms == {n \in Monos : MonoExps[n] = up}
        IN  IF ms = {} THEN 0 ELSE LET n == CHOOSE n \in ms : TRUE IN up[v] * p[n]]

\* sp.diff(e, v): the possible results.  An equation that does not contain v
\* differentiates to zero; for one that does, the result depends on the
\* SymPy release (an unevaluated Derivative, or the equation of the two
\* derivatives), so both are possible.
diff(e, v) ==
    IF e.kind = "expr" THEN {Expr(PDiff(e.lhs, v))}
    ELSE IF v \notin free_symbols(e) THEN {Expr(Zero)}
    ELSE {DRel(e.lhs, e.rhs), Rel(PDiff(e.lhs, v), PDiff(e.rhs, v))}

\* Minus with the operands added instead of subtracted
Minus_Added(a, b) ==
    IF a.kind = "rel" \/ b.kind = "rel" THEN Raise
    ELSE IF a.kind = "expr" /\ b.kind = "expr" THEN Expr(PAdd(a.lhs, b.lhs))
    ELSE Opaque

\* a - b: an equation has no subtraction (TypeError)
Minus(a, b) ==
    IF a.kind = "rel" \/ b.kind = "rel" THEN Raise
    ELSE IF a.kind = "expr" /\ b.kind = "expr" THEN Expr(PSub(a.lhs, b.lhs))
    ELSE IF a = b THEN Expr(Zero)
    ELSE Opaque

\* sp.simplify(e): the possible results.  A sum of monomials is already in
\* the form simplify returns; what it does with a Derivative of an equation
\* is the library's business: it returns a non-zero value or raises.
simplify(e) ==
    IF e.kind = "expr" THEN {e} ELSE {Opaque, Raise}

\* IsZero comparing by identity with the integer 0, which no expression is
IsZero_Never(e) == FALSE

\* e == 0
IsZero(e) == e.kind = "expr" /\ e.lhs = Zero


(***************************************************************************)
(* is_equivalent_up_to_constant (utils.py:9-73)                            *)
(***************************************************************************)
NoVar == "none"

\* NoneCheck answering True for an absent argument
NoneCheck_AbsentIsTrue(a, b) ==
    IF a.kind = "none" \/ b.kind = "none" THEN "true" ELSE "continue"

\* utils.py:20-22: the verdict of the None check, "continue" when both are present
NoneCheck(a, b) ==
    IF a.kind = "none" \/ b.kind = "none" THEN "false" ELSE "continue"

\* utils.py:37: the candidate variables, C filtered out
main_variables(a, b) == (free_symbols(a) \cup free_symbols(b)) \ {CSymbol}

\* VariablesVerdict without the return for a set that holds only C
VariablesVerdict_NoCReturn(a, b) ==
    IF free_symbols(a) \cup free_symbols(b) = {} THEN "true" ELSE "continue"

\* utils.py:31-40: the early returns on an empty variable set
VariablesVerdict(a, b) ==
    IF free_symbols(a) \cup free_symbols(b) = {} THEN "true"
    ELSE IF main_variables(a, b) = {} THEN "true"
    ELSE "continue"

\* utils.py:43: list(main_variables)[0]; the order of a set of Symbols is the
\* order of their hashes, which differs from process to process
FirstOf(S) == S

\* utils.py:66-69: the verdict of the fallback test
IsConstantVerdict(d) ==
    IF free_symbols(d) \ {CSymbol} = {} THEN "true" ELSE "false"

\* Handler re-raising what it caught
Handler_Reraises == [ret |-> "pending", esc |-> TRUE]

\* utils.py:71-73: the handler of the try block
Handler == [ret |-> "false", esc |-> FALSE]

EquivReset ==
    /\ var' = NoVar
    /\ difference' = NoneValue
    /\ expr_difference' = NoneValue
    /\ raised' = "none"
    /\ escaped' = FALSE
    /\ diffCalled' = FALSE
    /\ simplifyCalled' = FALSE
    /\ retval' = "pending"

\* a caller invokes is_equivalent_up_to_constant(a, b)
CallEquivalent ==
    /\ pc = "idle"
    /\ \E a \in Arguments, b \in Arguments :
          /\ user_answer' = a
          /\ correct_answer' = b
    /\ EquivReset
    /\ pc' = "eq_none_check"
    /\ UNCHANGED <<parseVars, otherVars>>

\* utils.py:20-22
EquivNoneCheck ==
    /\ pc = "eq_none_check"
    /\ LET v == NoneCheck(user_answer, correct_answer)
       IN  IF v = "continue"
           THEN pc' = "eq_sympify" /\ UNCHANGED retval
           ELSE pc' = "eq_done" /\ retval' = v
    /\ UNCHANGED <<user_answer, correct_answer, var, difference, expr_difference,
                   raised, escaped, diffCalled, simplifyCalled, parseVars, otherVars>>

\* utils.py:26-27: sp.sympify raises SympifyError on what it cannot convert
EquivSympify ==
    /\ pc = "eq_sympify"
    /\ IF user_answer.kind = "bad" \/ correct_answer.kind = "bad"
       THEN pc' = "eq_except" /\ raised' = "sympify"
       ELSE pc' = "eq_variables" /\ UNCHANGED raised
    /\ UNCHANGED <<user_answer, correct_answer, var, difference, expr_difference,
                   escaped, diffCalled, simplifyCalled, retval, parseVars, otherVars>>

\* utils.py:31-40
EquivVariables ==
    /\ pc = "eq_variables"
    /\ LET v == VariablesVerdict(user_answer, correct_answer)
       IN  IF v = "continue"
           THEN pc' = "eq_pick" /\ UNCHANGED retval
           ELSE pc' = "eq_done" /\ retval' = v
    /\ UNCHANGED <<user_answer, correct_answer, var, difference, expr_difference,
                   raised, escaped, diffCalled, simplifyCalled, parseVars, otherVars>>

\* utils.py:43: indexing an empty list raises IndexError
EquivPickVar ==
    /\ pc = "eq_pick"
    /\ LET mv == main_variables(user_answer, correct_answer)
       IN  IF mv = {}
           THEN pc' = "eq_except" /\ raised' = "index" /\ UNCHANGED var
           ELSE /\ \E v \in FirstOf(mv) : var' = v
                /\ pc' = "eq_primary"
                /\ UNCHANGED raised
    /\ UNCHANGED <<user_answer, correct_answer, difference, expr_difference,
                   escaped, diffCalled, simplifyCalled, retval, parseVars, otherVars>>

\* utils.py:45-57: the primary test on the derivatives
EquivPrimary ==
    /\ pc = "eq_primary"
    /\ diffCalled' = TRUE
    /\ \E user_derivative \in diff(user_answer, var),
          correct_derivative \in diff(correct_answer, var) :
          LET m == Minus(user_derivative, correct_derivative)
          IN  IF m.kind = "raise"
              THEN /\ pc' = "eq_except"
                   /\ raised' = "subtract"
                   /\ UNCHANGED <<difference, simplifyCalled, retval>>
              ELSE /\ simplifyCalled' = TRUE
                   /\ \E d \in simplify(m) :
                         IF d.kind = "raise"
                         THEN /\ pc' = "eq_except"
                              /\ raised' = "simplify"
                              /\ UNCHANGED <<difference, retval>>
                         ELSE /\ difference' = d
                              /\ UNCHANGED raised
                              /\ IF IsZero(d)
                                 THEN pc' = "eq_done" /\ retval' = "true"
                                 ELSE pc' = "eq_fallback" /\ UNCHANGED retval
    /\ UNCHANGED <<user_answer, correct_answer, var, expr_difference, escaped,
                   parseVars, otherVars>>

\* utils.py:61-69: the fallback test on the direct difference
EquivFallback ==
    /\ pc = "eq_fallback"
    /\ LET m == Minus(user_answer, correct_answer)
       IN  IF m.kind = "raise"
           THEN /\ pc' = "eq_except"
                /\ raised' = "subtract"
                /\ UNCHANGED <<expr_difference, simplifyCalled, retval>>
           ELSE /\ simplifyCalled' = TRUE
                /\ \E d \in simplify(m) :
                      IF d.kind = "raise"
                      THEN /\ pc' = "eq_except"
                           /\ raised' = "simplify"
                           /\ UNCHANGED <<expr_difference, retval>>
                      ELSE /\ expr_difference' = d
                           /\ retval' = IsConstantVerdict(d)
                           /\ pc' = "eq_done"
                           /\ UNCHANGED raised
    /\ UNCHANGED <<user_answer, correct_answer, var, difference, escaped,
                   diffCalled, parseVars, otherVars>>

\* utils.py:71-73: except Exception: return False
EquivExcept ==
    /\ pc = "eq_except"
    /\ retval' = Handler.ret
    /\ escaped' = Handler.esc
    /\ pc' = "eq_done"
    /\ UNCHANGED <<user_answer, correct_answer, var, difference, expr_difference,
                   raised, diffCalled, simplifyCalled, parseVars, otherVars>>

\* the caller takes the result
EquivReturn ==
    /\ pc = "eq_done"
    /\ pc' = "idle"
    /\ user_answer' = NoneValue
    /\ correct_answer' = NoneValue
    /\ EquivReset
    /\ UNCHANGED <<parseVars, otherVars>>

EquivNext ==
    \/ CallEquivalent
    \/ EquivNoneCheck
    \/ EquivSympify
    \/ EquivVariables
    \/ EquivPickVar
    \/ EquivPrimary
    \/ EquivFallback
    \/ EquivExcept
    \/ EquivReturn

\* the result of the normalisation steps while there is none
NoNorm == [status |-> "pending", text |-> <<>>]

\* the response of the handler while there is none
NoResponse ==
    [handler |-> "none", code |-> 0, success |-> FALSE, is_correct |-> "unset",
     message |-> "none"]

Init ==
    /\ pc = "idle"
    /\ user_answer = NoneValue
    /\ correct_answer = NoneValue
    /\ var = NoVar
    /\ difference = NoneValue
    /\ expr_difference = NoneValue
    /\ raised = "none"
    /\ escaped = FALSE
    /\ diffCalled = FALSE
    /\ simplifyCalled = FALSE
    /\ retval = "pending"
    /\ latex_in = <<>>
    /\ latex_str = <<>>
    /\ parser_arg = <<>>
    /\ parserCalled = FALSE
    /\ parse_raised = "none"
    /\ parse_escaped = FALSE
    /\ parse_ret = "pending"
    /\ norm_in = <<>>
    /\ norm_once = NoNorm
    /\ norm_twice = NoNorm
    /\ expr = NoneValue
    /\ expr_without_C = NoneValue
    /\ C_coeff = NoneValue
    /\ render_raised = "none"
    /\ render_ret = <<>>
    /\ answer = <<>>
    /\ solution = <<>>
    /\ response = NoResponse
    /\ round = 1
    /\ first_var = NoVar
    /\ first_retval = "pending"

EquivSpec == Init /\ [][EquivNext]_vars


(***************************************************************************)
(* LaTeX text: sequences of one-character strings                          *)
(***************************************************************************)
Backslash == "\\"

UpperCase == << "A", "B", "C", "D", "E", "F", "G", "H", "I", "J", "K", "L", "M",
               "N", "O", "P", "Q", "R", "S", "T", "U", "V", "W", "X", "Y", "Z" >>
LowerCase == << "a", "b", "c", "d", "e", "f", "g", "h", "i", "j", "k", "l", "m",
               "n", "o", "p", "q", "r", "s", "t", "u", "v", "w", "x", "y", "z" >>
Digits == {"0", "1", "2", "3", "4", "5", "6", "7", "8", "9"}

Range(f) == {f[i] : i \in DOMAIN f}

UpperLetters == Range(UpperCase)

Letters == UpperLetters \cup Range(LowerCase)

\* [A-Za-z0-9_], the characters \b tells apart from the rest
WordChars == Letters \cup Digits \cup {"_"}

\* the characters str.strip() removes
Whitespace == {" ", "\t", "\n"}

ToLower == [c \in UpperLetters |-> LowerCase[CHOOSE i \in DOMAIN UpperCase : UpperCase[i] = c]]

\* str.lower() on one character
LowerChar(c) == IF c \in UpperLetters THEN ToLower[c] ELSE c

\* str.lower()
lower(s) == [i \in 1..Len(s) |-> LowerChar(s[i])]

\* str.strip()
strip(s) ==
    IF \A i \in 1..Len(s) : s[i] \in Whitespace THEN <<>>
    ELSE SubSeq(s,
           CHOOSE i \in 1..Len(s) :
               s[i] \notin Whitespace /\ \A j \in 1..(i - 1) : s[j] \in Whitespace,
           CHOOSE i \in 1..Len(s) :
               s[i] \notin Whitespace /\ \A j \in (i + 1)..Len(s) : s[j] \in Whitespace)

\* p occurs in s at index i
OccursAt(s, p, i) ==
    /\ i >= 1
    /\ i + Len(p) - 1 <= Len(s)
    /\ \A k \in 1..Len(p) : s[i + k - 1] = p[k]

\* Python's  p in s
Contains(s, p) == \E i \in 1..(Len(s) - Len(p) + 1) : OccursAt(s, p, i)

\* utils.py:93: the length cap
MaxLatexLen == 1000

\* utils.py:98-101
dangerous_patterns ==
    << <<"\\", "i", "n", "p", "u", "t">>,
       <<"\\", "i", "n", "c", "l", "u", "d", "e">>,
       <<"\\", "w", "r", "i", "t", "e">>,
       <<"\\", "r", "e", "a", "d">>,
       <<"\\", "o", "p", "e", "n", "i", "n">>,
       <<"\\", "o", "p", "e", "n", "o", "u", "t">>,
       <<"\\", "i", "m", "m", "e", "d", "i", "a", "t", "e">>,
       <<"\\", "s", "p", "e", "c", "i", "a", "l">>,
       <<"\\", "c", "a", "t", "c", "o", "d", "e">>,
       <<"\\", "d", "e", "f">>,
       <<"\\", "l", "e", "t">> >>

\* utils.py:116: the names of the split-form pattern
SplitNames == { <<"s", "i", "n">>,
                <<"c", "o", "s">>,
                <<"t", "a", "n">>,
                <<"s", "e", "c">>,
                <<"c", "s", "c">>,
                <<"c", "o", "t">> }

\* utils.py:119
ArcNames == << <<"a", "r", "c", "s", "i", "n">>,
              <<"a", "r", "c", "c", "o", "s">>,
              <<"a", "r", "c", "t", "a", "n">>,
              <<"a", "r", "c", "s", "e", "c">>,
              <<"a", "r", "c", "c", "s", "c">>,
              <<"a", "r", "c", "c", "o", "t">> >>

\* utils.py:125
BasicNames == << <<"s", "i", "n">>, <<"c", "o", "s">>, <<"t", "a", "n">>, <<"l", "n">>, <<"l", "o", "g">> >>

ArcPrefix == <<"\\", "a", "r", "c", "\\">>

\* utils.py:116: where  \\arc\\(sin|cos|tan|sec|csc|cot)\b  matches (case-sensitive)
SplitMatches(s) ==
    {i \in 1..Len(s) :
        /\ OccursAt(s, ArcPrefix, i)
        /\ \E f \in SplitNames : OccursAt(s, f, i + Len(ArcPrefix))
        /\ (i + Len(ArcPrefix) + 3 > Len(s) \/ s[i + Len(ArcPrefix) + 3] \notin WordChars)}

\* s without the characters at the indices in D
DeleteAt(s, D) ==
    IF D = {} THEN s
    ELSE [j \in 1..(Len(s) - Cardinality(D)) |->
             s[CHOOSE k \in j..(j + Cardinality(D)) :
                 k \notin D /\ k - Cardinality({d \in D : d < k}) = j]]

\* utils.py:116: re.sub(r"\\arc\\(sin|...)\b", r"\\arc\1", s): the backslash
\* between arc and the name is dropped
FixSplit(s) == DeleteAt(s, {i + Len(ArcPrefix) - 1 : i \in SplitMatches(s)})

\* where  (?<!banned)fname\(  matches, ignoring case
NameMatches(s, fname, banned) ==
    {i \in 1..Len(s) :
        /\ i + Len(fname) <= Len(s)
        /\ \A k \in 1..Len(fname) : LowerChar(s[i + k - 1]) = fname[k]
        /\ s[i + Len(fname)] = "("
        /\ (i = 1 \/ s[i - 1] \notin banned)}

\* utils.py:120-122 and 126-128: re.sub(pattern, r"\\fname(", s, IGNORECASE):
\* every match becomes a backslash and the name in lower case
AddBackslash(s, fname, banned) ==
    LET M == NameMatches(s, fname, banned)
        B == {i + Cardinality({m \in M : m < i}) : i \in M}
    IN  IF M = {} THEN s
        ELSE [j \in 1..(Len(s) + Cardinality(M)) |->
                 IF j \in B THEN Backslash
                 ELSE LET k == j - Cardinality({b \in B : b < j})
                      IN  IF \E i \in M : i <= k /\ k < i + Len(fname)
                          THEN LowerChar(s[k]) ELSE s[k]]

\* utils.py:120: (?<!\\)
ArcLookbehind == {Backslash}

\* BasicLookbehind that looks for a backslash only, as the loop over the
\* inverse functions does
BasicLookbehind_BackslashOnly == {Backslash}

\* utils.py:126: (?<![\\A-Za-z])
BasicLookbehind == {Backslash} \cup Letters

RECURSIVE RepairArc(_, _)
\* utils.py:119-122: the loop over the inverse functions, from the n-th name on
RepairArc(s, n) ==
    IF n > Len(ArcNames) THEN s
    ELSE RepairArc(AddBackslash(s, ArcNames[n], ArcLookbehind), n + 1)

RECURSIVE RepairBasic(_, _)
\* utils.py:125-128: the loop over the basic functions, from the n-th name on
RepairBasic(s, n) ==
    IF n > Len(BasicNames) THEN s
    ELSE RepairBasic(AddBackslash(s, BasicNames[n], BasicLookbehind), n + 1)

\* utils.py:112-128: the function-name repair
Repair(s) == RepairBasic(RepairArc(FixSplit(strip(s)), 1), 1)

PlusC == <<"+", "C">>
PlusSpaceC == <<"+", " ", "C">>
MinusC == <<"-", "C">>
MinusSpaceC == <<"-", " ", "C">>
Equals == <<"=">>
SpacePlusSpaceC == <<" ", "+", " ", "C">>

\* NeedsConstant without the test for an equals sign
NeedsConstant_NoEquals(s) ==
    /\ ~Contains(s, PlusC)
    /\ ~Contains(s, PlusSpaceC)
    /\ ~Contains(s, MinusC)
    /\ ~Contains(s, MinusSpaceC)

\* NeedsConstant without the test for '+ C'
NeedsConstant_NoPlusSpaceC(s) ==
    /\ ~Contains(s, PlusC)
    /\ ~Contains(s, MinusC)
    /\ ~Contains(s, MinusSpaceC)
    /\ ~Contains(s, Equals)

\* utils.py:131-133: the text gets the constant of integration
NeedsConstant(s) ==
    /\ ~Contains(s, PlusC)
    /\ ~Contains(s, PlusSpaceC)
    /\ ~Contains(s, MinusC)
    /\ ~Contains(s, MinusSpaceC)
    /\ ~Contains(s, Equals)

\* utils.py:131-134
Inject(s) == IF NeedsConstant(s) THEN s \o SpacePlusSpaceC ELSE s

\* Validate matching the denylist against the text as written, not lowered
Validate_CaseSensitive(raw) ==
    LET stripped == strip(raw)
    IN  IF Len(raw) = 0 \/ Len(stripped) = 0 THEN "empty"
        ELSE IF Len(stripped) > MaxLatexLen THEN "too_long"
        ELSE IF \E n \in DOMAIN dangerous_patterns :
                    Contains(stripped, dangerous_patterns[n])
             THEN "dangerous"
             ELSE "ok"

\* Validate with the cap one character too high
Validate_CapOffByOne(raw) ==
    LET stripped == strip(raw)
    IN  IF Len(raw) = 0 \/ Len(stripped) = 0 THEN "empty"
        ELSE IF Len(stripped) > MaxLatexLen + 1 THEN "too_long"
        ELSE LET latex_lower == lower(stripped)
             IN  IF \E n \in DOMAIN dangerous_patterns :
                        Contains(latex_lower, dangerous_patterns[n])
                 THEN "dangerous"
                 ELSE "ok"

\* utils.py:86-106: why the input is refused, or "ok"
Validate(raw) ==
    LET stripped == strip(raw)
    IN  IF Len(raw) = 0 \/ Len(stripped) = 0 THEN "empty"
        ELSE IF Len(stripped) > MaxLatexLen THEN "too_long"
        ELSE LET latex_lower == lower(stripped)
             IN  IF \E n \in DOMAIN dangerous_patterns :
                        Contains(latex_lower, dangerous_patterns[n])
                 THEN "dangerous"
                 ELSE "ok"

\* parse_latex(text): the parser is an external library; it returns an
\* expression or raises
parse_latex(text) == {"expr", "raise"}

\* utils.py:109: the import of the parser succeeds or raises ImportError
ImportParser == {"ok", "raise"}

(***************************************************************************)
(* Inputs of parse_latex_safely                                            *)
(***************************************************************************)
\* pieces the short inputs are put together from
Fragments ==
    { <<"x">>,
      <<" ">>,
      <<"(">>,
      <<"+">>,
      <<"-">>,
      <<"C">>,
      <<"=">>,
      <<"a", "r", "c">>,
      <<"s", "i", "n">>,
      <<"\\", "a", "r", "c">>,
      <<"\\", "s", "i", "n">>,
      <<"C", "o", "s", "(">>,
      <<"\\", "d", "e", "f">>,
      <<"\\", "L", "e", "T">> }

\* number of pieces in a short input
MaxFrags == 3

RECURSIVE Joined(_)
Joined(k) == IF k = 0 THEN {<<>>}
             ELSE LET S == Joined(k - 1) IN S \cup {t \o f : t \in S, f \in Fragments}

\* n times the character c
Repeat(c, n) == [i \in 1..n |-> c]

\* inputs at the length cap: a piece, filled up with x to the cap or one
\* beyond it, as it is or with a space before it
LongInputs ==
    {lead \o f \o Repeat("x", n - Len(f)) :
        lead \in {<<>>, <<" ">>},
        f \in Fragments \cup {<<>>},
        n \in {MaxLatexLen, MaxLatexLen + 1}}

Inputs == Joined(MaxFrags) \cup LongInputs

(***************************************************************************)
(* parse_latex_safely (utils.py:76-142)                                    *)
(***************************************************************************)
\* ParseHandler re-raising what it caught
ParseHandler_Reraises == [ret |-> "pending", esc |-> TRUE]

\* utils.py:140-142: the handler of the try block
ParseHandler == [ret |-> "None", esc |-> FALSE]

ParseReset ==
    /\ latex_str' = <<>>
    /\ parser_arg' = <<>>
    /\ parserCalled' = FALSE
    /\ parse_raised' = "none"
    /\ parse_escaped' = FALSE
    /\ parse_ret' = "pending"

\* a caller invokes parse_latex_safely(raw)
CallParse ==
    /\ pc = "idle"
    /\ \E raw \in Inputs : latex_in' = raw
    /\ ParseReset
    /\ pc' = "pl_validate"
    /\ UNCHANGED <<equivVars, otherVars>>

\* utils.py:86-106: the empty, length and denylist checks
ParseValidate ==
    /\ pc = "pl_validate"
    /\ IF Validate(latex_in) = "ok"
       THEN /\ latex_str' = strip(latex_in)
            /\ pc' = "pl_repair"
            /\ UNCHANGED parse_ret
       ELSE /\ parse_ret' = "None"
            /\ pc' = "pl_done"
            /\ UNCHANGED latex_str
    /\ UNCHANGED <<latex_in, parser_arg, parserCalled, parse_raised, parse_escaped,
                   equivVars, otherVars>>

\* utils.py:108-128: the import of the parser and the function-name repair
ParseRepair ==
    /\ pc = "pl_repair"
    /\ \E imp \in ImportParser :
          IF imp = "raise"
          THEN /\ pc' = "pl_except"
               /\ parse_raised' = "import"
               /\ UNCHANGED latex_str
          ELSE /\ latex_str' = Repair(latex_str)
               /\ pc' = "pl_inject"
               /\ UNCHANGED parse_raised
    /\ UNCHANGED <<latex_in, parser_arg, parserCalled, parse_escaped, parse_ret,
                   equivVars, otherVars>>

\* utils.py:130-134: the constant of integration
ParseInject ==
    /\ pc = "pl_inject"
    /\ latex_str' = Inject(latex_str)
    /\ pc' = "pl_parse"
    /\ UNCHANGED <<latex_in, parser_arg, parserCalled, parse_raised, parse_escaped,
                   parse_ret, equivVars, otherVars>>

\* utils.py:136-138: the call of the external parser
ParseInvoke ==
    /\ pc = "pl_parse"
    /\ parserCalled' = TRUE
    /\ parser_arg' = latex_str
    /\ \E r \in parse_latex(latex_str) :
          IF r = "raise"
          THEN /\ pc' = "pl_except"
               /\ parse_raised' = "parser"
               /\ UNCHANGED parse_ret
          ELSE /\ parse_ret' = r
               /\ pc' = "pl_done"
               /\ UNCHANGED parse_raised
    /\ UNCHANGED <<latex_in, latex_str, parse_escaped, equivVars, otherVars>>

\* utils.py:140-142: except Exception: return None
ParseExcept ==
    /\ pc = "pl_except"
    /\ parse_ret' = ParseHandler.ret
    /\ parse_escaped' = ParseHandler.esc
    /\ pc' = "pl_done"
    /\ UNCHANGED <<latex_in, latex_str, parser_arg, parserCalled, parse_raised,
                   equivVars, otherVars>>

\* the caller takes the result
ParseReturn ==
    /\ pc = "pl_done"
    /\ pc' = "idle"
    /\ latex_in' = <<>>
    /\ ParseReset
    /\ UNCHANGED <<equivVars, otherVars>>

ParseNext ==
    \/ CallParse
    \/ ParseValidate
    \/ ParseRepair
    \/ ParseInject
    \/ ParseInvoke
    \/ ParseExcept
    \/ ParseReturn

ParseSpec == Init /\ [][ParseNext]_vars

Next == EquivNext \/ ParseNext

Spec == Init /\ [][Next]_vars

(***************************************************************************)
(* The normalisation steps of parse_latex_safely (utils.py:86-134), the     *)
(* text they hand to the parser normalised once more                       *)
(***************************************************************************)
\* utils.py:86-134: the checks, the repair and the constant of integration;
\* the text handed to the parser, or why the input is refused
Normalize(raw) ==
    LET v == Validate(raw)
    IN  IF v = "ok" THEN [status |-> "ok", text |-> Inject(Repair(raw))]
        ELSE [status |-> v, text |-> <<>>]

\* the inputs of parse_latex_safely and short inputs that already end in ' + C'
NormInputs == Inputs \cup {t \o SpacePlusSpaceC : t \in Joined(MaxFrags - 1)}

\* a text is given to the normalisation steps
CallNormalize ==
    /\ pc = "idle"
    /\ \E raw \in NormInputs : norm_in' = raw
    /\ norm_once' = NoNorm
    /\ norm_twice' = NoNorm
    /\ pc' = "nm_first"
    /\ UNCHANGED <<equivVars, parseVars, renderVars, submitVars, roundVars>>

\* utils.py:86-134 on the text given
NormFirst ==
    /\ pc = "nm_first"
    /\ norm_once' = Normalize(norm_in)
    /\ pc' = IF Normalize(norm_in).status = "ok" THEN "nm_second" ELSE "nm_done"
    /\ UNCHANGED <<norm_in, norm_twice, equivVars, parseVars, renderVars, submitVars,
                   roundVars>>

\* utils.py:86-134 on the text the first pass produced
NormSecond ==
    /\ pc = "nm_second"
    /\ norm_twice' = Normalize(norm_once.text)
    /\ pc' = "nm_done"
    /\ UNCHANGED <<norm_in, norm_once, equivVars, parseVars, renderVars, submitVars,
                   roundVars>>

NormReturn ==
    /\ pc = "nm_done"
    /\ pc' = "idle"
    /\ norm_in' = <<>>
    /\ norm_once' = NoNorm
    /\ norm_twice' = NoNorm
    /\ UNCHANGED <<equivVars, parseVars, renderVars, submitVars, roundVars>>

NormNext ==
    \/ CallNormalize
    \/ NormFirst
    \/ NormSecond
    \/ NormReturn

NormSpec == Init /\ [][NormNext]_vars

(***************************************************************************)
(* sympy_to_latex (utils.py:145-184)                                       *)
(***************************************************************************)
DigitChars == <<"0", "1", "2", "3", "4", "5", "6", "7", "8", "9">>

RECURSIVE NatText(_)
\* the decimal digits of a natural number
NatText(n) ==
    IF n < 10 THEN <<DigitChars[n + 1]>>
    ELSE NatText(n \div 10) \o <<DigitChars[(n % 10) + 1]>>

\* sp.latex and str of an integer
IntText(n) == IF n < 0 THEN <<"-">> \o NatText(0 - n) ELSE NatText(n)

\* the order in which the printers put the terms of a sum: by the powers of
\* C, then of x, then of y, highest first, the number last
MonoOrder == <<"CC", "xC", "C", "xx", "xy", "x", "y", "one">>

\* sp.latex of a monomial
MonoLatex ==
    [one |-> <<>>, x |-> <<"x">>, y |-> <<"y">>, C |-> <<"C">>,
     xx |-> <<"x", "^", "{", "2", "}">>, xy |-> <<"x", " ", "y">>,
     xC |-> <<"C", " ", "x">>, CC |-> <<"C", "^", "{", "2", "}">>]

\* str of a monomial
MonoStr ==
    [one |-> <<>>, x |-> <<"x">>, y |-> <<"y">>, C |-> <<"C">>,
     xx |-> <<"x", "*", "*", "2">>, xy |-> <<"x", "*", "y">>,
     xC |-> <<"C", "*", "x">>, CC |-> <<"C", "*", "*", "2">>]

\* a term c*m with c > 0, as sp.latex ("latex") or str ("str") prints it
TermText(c, m, style) ==
    IF m = One THEN NatText(c)
    ELSE IF style = "latex"
         THEN (IF c = 1 THEN <<>> ELSE NatText(c) \o <<" ">>) \o MonoLatex[m]
         ELSE (IF c = 1 THEN <<>> ELSE NatText(c) \o <<"*">>) \o MonoStr[m]

RECURSIVE SumText(_, _, _)
\* the terms of p from the n-th monomial of MonoOrder on, each after ' + '
SumText(p, n, style) ==
    IF n > Len(MonoOrder) THEN <<>>
    ELSE LET m == MonoOrder[n]
         IN  (IF p[m] = 0 THEN <<>>
              ELSE <<" ", "+", " ">> \o TermText(p[m], m, style))
             \o SumText(p, n + 1, style)

\* a polynomial without negative coefficients as the printers print it
PolyText(p, style) ==
    IF p = Zero THEN <<"0">>
    ELSE LET t == SumText(p, 1, style) IN SubSeq(t, 4, Len(t))

\* the polynomial is a number
IsNumber(p) == \A m \in Monos : m # One => p[m] = 0

\* sp.latex(e): a number, a sum of monomials or an equation
latex(e) ==
    IF e.kind = "rel"
    THEN PolyText(e.lhs, "latex") \o <<" ", "=", " ">> \o PolyText(e.rhs, "latex")
    ELSE IF IsNumber(e.lhs) THEN IntText(e.lhs[One])
    ELSE PolyText(e.lhs, "latex")

\* str(e)
str(e) ==
    IF e.kind = "rel"
    THEN <<"E", "q", "(">> \o PolyText(e.lhs, "str") \o <<",", " ">>
             \o PolyText(e.rhs, "str") \o <<")">>
    ELSE IF IsNumber(e.lhs) THEN IntText(e.lhs[One])
    ELSE PolyText(e.lhs, "str")

\* p with C set to 0
PSubsC0(p) == [m \in Monos |-> IF MonoExps[m][CSymbol] > 0 THEN 0 ELSE p[m]]

\* utils.py:161: expr.subs(C_symbol, 0)
subs(e) ==
    IF e.kind = "rel" THEN Rel(PSubsC0(e.lhs), PSubsC0(e.rhs))
    ELSE Expr(PSubsC0(e.lhs))

\* the coefficient of C**1 in p: the terms that hold C to the first power,
\* divided by C
PCoeffC(p) ==
    [m \in Monos |-> IF m = One THEN p["C"] ELSE IF m = "x" THEN p["xC"] ELSE 0]

\* utils.py:162: expr.coeff(C_symbol, 1); an equation has no coeff
\* (AttributeError)
coeff(e) == IF e.kind = "rel" THEN Raise ELSE Expr(PCoeffC(e.lhs))

\* utils.py:175: C_coeff > 0 as the condition of an if; the truth value of a
\* comparison with a symbolic coefficient cannot be determined (TypeError)
IsPositive(k) ==
    IF ~IsNumber(k.lhs) THEN "raise"
    ELSE IF k.lhs[One] > 0 THEN "true" ELSE "false"

SpaceMinusSpaceC == <<" ", "-", " ", "C">>

\* Format with the two unit coefficients taken for each other
Format_UnitsSwapped(main_latex, k) ==
    IF k = Expr(Term(One)) THEN [raised |-> FALSE, text |-> main_latex \o SpaceMinusSpaceC]
    ELSE IF k = Expr(PSub(Zero, Term(One)))
    THEN [raised |-> FALSE, text |-> main_latex \o SpacePlusSpaceC]
    ELSE LET C_latex == latex(k)
             positive == IsPositive(k)
         IN  IF positive = "raise" THEN [raised |-> TRUE, text |-> <<>>]
             ELSE IF positive = "true"
             THEN [raised |-> FALSE,
                   text |-> main_latex \o <<" ", "+", " ">> \o C_latex \o <<" ", "C">>]
             ELSE [raised |-> FALSE,
                   text |-> main_latex \o <<" ">> \o C_latex \o <<" ", "C">>]

\* utils.py:168-178: the text for the main part and the coefficient k of C
Format(main_latex, k) ==
    IF k = Expr(Term(One)) THEN [raised |-> FALSE, text |-> main_latex \o SpacePlusSpaceC]
    ELSE IF k = Expr(PSub(Zero, Term(One)))
    THEN [raised |-> FALSE, text |-> main_latex \o SpaceMinusSpaceC]
    ELSE LET C_latex == latex(k)
             positive == IsPositive(k)
         IN  IF positive = "raise" THEN [raised |-> TRUE, text |-> <<>>]
             ELSE IF positive = "true"
             THEN [raised |-> FALSE,
                   text |-> main_latex \o <<" ", "+", " ">> \o C_latex \o <<" ", "C">>]
             ELSE [raised |-> FALSE,
                   text |-> main_latex \o <<" ">> \o C_latex \o <<" ", "C">>]

\* k times the polynomial p
PScale(k, p) == [m \in Monos |-> k * p[m]]

\* the expressions sympy_to_latex is called with: sums of monomials, sums
\* with a negative multiple of C, equations
RenderInputs ==
    {Expr(p) : p \in Sums(MaxTerms)}
    \cup {Expr(PSub(p, PScale(j, Term("C")))) :
             p \in {q \in Sums(MaxTerms - 1) : \A m \in {"C", "xC", "CC"} : q[m] = 0},
             j \in 1..MaxTerms}
    \cup {Rel(Term("y"), r) : r \in Sums(MaxTerms)}

RenderReset ==
    /\ expr_without_C' = NoneValue
    /\ C_coeff' = NoneValue
    /\ render_raised' = "none"
    /\ render_ret' = <<>>

\* a caller invokes sympy_to_latex(expr)
CallRender ==
    /\ pc = "idle"
    /\ \E e \in RenderInputs : expr' = e
    /\ RenderReset
    /\ pc' = "rl_extract"
    /\ UNCHANGED <<equivVars, parseVars, normVars, submitVars, roundVars>>

\* utils.py:158-162: the test for C and the separation of its coefficient
RenderExtract ==
    /\ pc = "rl_extract"
    /\ IF CSymbol \notin free_symbols(expr)
       THEN /\ pc' = "rl_default"
            /\ UNCHANGED <<expr_without_C, C_coeff, render_raised>>
       ELSE /\ expr_without_C' = subs(expr)
            /\ IF coeff(expr).kind = "raise"
               THEN /\ pc' = "rl_except"
                    /\ render_raised' = "coeff"
                    /\ UNCHANGED C_coeff
               ELSE /\ C_coeff' = coeff(expr)
                    /\ pc' = "rl_format"
                    /\ UNCHANGED render_raised
    /\ UNCHANGED <<expr, render_ret, equivVars, parseVars, normVars, submitVars,
                   roundVars>>

\* utils.py:164-178: C_coeff is never None, so the canonical form is built
RenderFormat ==
    /\ pc = "rl_format"
    /\ LET main_latex == latex(expr_without_C)
           f == Format(main_latex, C_coeff)
       IN  IF f.raised
           THEN /\ pc' = "rl_except"
                /\ render_raised' = "compare"
                /\ UNCHANGED render_ret
           ELSE /\ render_ret' = f.text
                /\ pc' = "rl_done"
                /\ UNCHANGED render_raised
    /\ UNCHANGED <<expr, expr_without_C, C_coeff, equivVars, parseVars, normVars,
                   submitVars, roundVars>>

\* utils.py:181: return sp.latex(expr)
RenderDefault ==
    /\ pc = "rl_default"
    /\ render_ret' = latex(expr)
    /\ pc' = "rl_done"
    /\ UNCHANGED <<expr, expr_without_C, C_coeff, render_raised, equivVars, parseVars,
                   normVars, submitVars, roundVars>>

\* utils.py:182-184: except Exception: return str(expr)
RenderExcept ==
    /\ pc = "rl_except"
    /\ render_ret' = str(expr)
    /\ pc' = "rl_done"
    /\ UNCHANGED <<expr, expr_without_C, C_coeff, render_raised, equivVars, parseVars,
                   normVars, submitVars, roundVars>>

\* the caller takes the string
RenderReturn ==
    /\ pc = "rl_done"
    /\ pc' = "idle"
    /\ expr' = NoneValue
    /\ RenderReset
    /\ UNCHANGED <<equivVars, parseVars, normVars, submitVars, roundVars>>

RenderNext ==
    \/ CallRender
    \/ RenderExtract
    \/ RenderFormat
    \/ RenderDefault
    \/ RenderExcept
    \/ RenderReturn

RenderSpec == Init /\ [][RenderNext]_vars

(***************************************************************************)
(* parse_latex on the texts of the handlers: sums of products of x, y and  *)
(* C with signs, and equations between two such sums                       *)
(***************************************************************************)
\* a text outside the monomials of the modelled fragment
Unmodelled == [kind |-> "unmodelled", lhs |-> Zero, rhs |-> Zero]

NoMono == "none"

\* the monomial m times the symbol c, NoMono when it is not one of Monos
MonoMul(m, c) ==
    LET up == [MonoExps[m] EXCEPT ![c] = @ + 1]
        ms == {n \in Monos : MonoExps[n] = up}
    IN  IF ms = {} THEN NoMono ELSE CHOOSE n \in ms : TRUE

RECURSIVE Scan(_, _, _, _, _)
\* the parser on the tokens from the i-th on: p is the sum read so far, term
\* the product being read (NoMono after a sign) and sign its sign.  Symbols
\* that follow each other are multiplied, a sign after a sign is a unary
\* sign, and a sum that ends in a sign, or is empty, is a syntax error.
Scan(tokens, i, p, sign, term) ==
    IF i > Len(tokens)
    THEN IF term = NoMono THEN Raise ELSE Expr(PAdd(p, [m \in Monos |-> sign * Term(term)[m]]))
    ELSE LET c == tokens[i]
         IN  IF c \in Symbols
             THEN LET t == MonoMul(IF term = NoMono THEN One ELSE term, c)
                  IN  IF t = NoMono THEN Unmodelled
                      ELSE Scan(tokens, i + 1, p, sign, t)
             ELSE IF c \in {"+", "-"}
             THEN LET sg == IF c = "+" THEN 1 ELSE -1
                  IN  IF term = NoMono THEN Scan(tokens, i + 1, p, sign * sg, NoMono)
                      ELSE Scan(tokens, i + 1,
                                PAdd(p, [m \in Monos |-> sign * Term(term)[m]]), sg, NoMono)
             ELSE Raise

\* the parser on a sum
ParseSum(tokens) == Scan(tokens, 1, Zero, 1, NoMono)

\* parse_latex(text) for a text of symbols, signs, blanks and at most one
\* equals sign: an expression, an equation, or a syntax error
ParseText(text) ==
    LET tokens == SelectSeq(text, LAMBDA c : c \notin Whitespace)
        eqs == {i \in 1..Len(tokens) : tokens[i] = "="}
    IN  IF eqs = {} THEN ParseSum(tokens)
        ELSE LET i == CHOOSE j \in eqs : \A k \in eqs : j <= k
                 l == ParseSum(SubSeq(tokens, 1, i - 1))
                 r == ParseSum(SubSeq(tokens, i + 1, Len(tokens)))
             IN  IF l.kind = "unmodelled" \/ r.kind = "unmodelled" THEN Unmodelled
                 ELSE IF l.kind = "raise" \/ r.kind = "raise" THEN Raise
                 ELSE Rel(l.lhs, r.lhs)

\* utils.py:76-142: parse_latex_safely(text) with the parser at hand
ParseSafely(text) ==
    LET n == Normalize(text)
    IN  IF n.status # "ok" THEN NoneValue
        ELSE LET r == ParseText(n.text)
             IN  IF r.kind = "raise" THEN NoneValue ELSE r

\* the characters the texts of the handlers are written with
TextChars == {"x", "y", "C", "+", "-", " ", "="}

\* length of the learner's text
MaxChars == 3

RECURSIVE TextsOf(_)
TextsOf(k) == IF k = 0 THEN {<<>>}
              ELSE LET S == TextsOf(k - 1) IN S \cup {t \o <<c>> : t \in S, c \in TextChars}

\* the parser model covers the text: at most one equals sign, products
\* within Monos, and no symbol that cancels out of the sum
Modelled(text) ==
    /\ Cardinality({i \in 1..Len(text) : text[i] = "="}) <= 1
    /\ LET n == Normalize(text)
       IN  n.status = "ok" =>
              LET r == ParseText(n.text)
              IN  /\ r.kind # "unmodelled"
                  /\ r.kind \in {"expr", "rel"} =>
                        free_symbols(r) = {c \in Range(n.text) : c \in Symbols}

\* a text the sanitizer refuses
DeniedText == <<"\\", "d", "e", "f">>

\* the learner's texts
AnswerTexts == {t \in TextsOf(MaxChars) : Modelled(t)} \cup {DeniedText}

\* the reference solutions of the problem source: x, x*x, an equation, and
\* one the parser cannot read
SolutionTexts == { <<"x">>, <<"x", "x">>, <<"y", "=", "x">>, <<"=">> }

(***************************************************************************)
(* The handlers: submit_answer (api.py:62-143) and index (routes.py:11-49) *)
(***************************************************************************)
Reply(h, code, success, is_correct, message) ==
    [handler |-> h, code |-> code, success |-> success, is_correct |-> is_correct,
     message |-> message]

\* api.py:72-78
NoData == Reply("api", 400, FALSE, "unset", "No data provided")

\* api.py:83-90
InvalidRequest == Reply("api", 400, FALSE, "unset", "Invalid request data")

\* api.py:136-143
InternalError == Reply("api", 500, FALSE, "unset", "Internal server error")

\* api.py:100-107 and routes.py:30-31
InvalidExpression(h) ==
    IF h = "api" THEN Reply(h, 200, FALSE, "false", "Invalid mathematical expression")
    ELSE Reply(h, 200, FALSE, "unset",
               "Invalid mathematical expression. Please check your input.")

\* api.py:109-119 and routes.py:32-34
ReferenceError(h) ==
    IF h = "api" THEN Reply(h, 500, FALSE, "false", "Server error")
    ELSE Reply(h, 200, FALSE, "unset",
               "Error processing the correct answer. Please contact support.")

\* api.py:127-134 and routes.py:42-45
Graded(h, verdict) ==
    Reply(h, 200, IF h = "api" THEN TRUE ELSE verdict = "true", verdict,
          IF verdict = "true" THEN "Correct! Well done!" ELSE "Incorrect. Try again!")

\* api.py:70-95: a request reaches submit_answer; its body cannot be read,
\* is empty, fails the validation of SubmissionRequest, or holds an answer
\* and a problem
SubmitCall ==
    /\ pc = "idle"
    /\ \E body \in {"unreadable", "empty", "invalid", "valid"} :
          IF body = "valid"
          THEN /\ \E a \in AnswerTexts, r \in SolutionTexts :
                     answer' = a /\ solution' = r
               /\ response' = [NoResponse EXCEPT !.handler = "api"]
               /\ pc' = "sb_parse"
          ELSE /\ response' = IF body = "unreadable" THEN InternalError
                              ELSE IF body = "empty" THEN NoData ELSE InvalidRequest
               /\ pc' = "sb_done"
               /\ UNCHANGED <<answer, solution>>
    /\ UNCHANGED <<equivVars, parseVars, normVars, renderVars, roundVars>>

\* routes.py:19-24: a POST reaches index with the answer of the form, the
\* problem comes from the problem source
IndexCall ==
    /\ pc = "idle"
    /\ \E a \in AnswerTexts \cup {<<>>}, r \in SolutionTexts :
          answer' = a /\ solution' = r
    /\ response' = [NoResponse EXCEPT !.handler = "index"]
    /\ pc' = "sb_parse"
    /\ UNCHANGED <<equivVars, parseVars, normVars, renderVars, roundVars>>

\* api.py:97-98 and routes.py:27-28: both texts are parsed
SubmitParse ==
    /\ pc = "sb_parse"
    /\ user_answer' = ParseSafely(answer)
    /\ correct_answer' = ParseSafely(solution)
    /\ pc' = "sb_check"
    /\ UNCHANGED <<var, difference, expr_difference, raised, escaped, diffCalled,
                   simplifyCalled, retval, parseVars, normVars, renderVars,
                   submitVars, roundVars>>

\* SubmitCheck looking at the reference before the learner's answer
SubmitCheck_ReferenceFirst ==
    /\ pc = "sb_check"
    /\ IF correct_answer.kind = "none"
       THEN response' = ReferenceError(response.handler) /\ pc' = "sb_done"
       ELSE IF user_answer.kind = "none"
       THEN response' = InvalidExpression(response.handler) /\ pc' = "sb_done"
       ELSE UNCHANGED response /\ pc' = "eq_none_check"
    /\ UNCHANGED <<equivVars, parseVars, normVars, renderVars, answer, solution,
                   roundVars>>

\* api.py:100-125 and routes.py:30-40: the learner's answer is looked at
\* first, the reference second, and only then is the answer graded
SubmitCheck ==
    /\ pc = "sb_check"
    /\ IF user_answer.kind = "none"
       THEN response' = InvalidExpression(response.handler) /\ pc' = "sb_done"
       ELSE IF correct_answer.kind = "none"
       THEN response' = ReferenceError(response.handler) /\ pc' = "sb_done"
       ELSE UNCHANGED response /\ pc' = "eq_none_check"
    /\ UNCHANGED <<equivVars, parseVars, normVars, renderVars, answer, solution,
                   roundVars>>

\* api.py:127-134 and routes.py:42-45: the verdict goes into the response
SubmitRespond ==
    /\ pc = "eq_done"
    /\ response' = Graded(response.handler, retval)
    /\ pc' = "sb_done"
    /\ UNCHANGED <<equivVars, parseVars, normVars, renderVars, answer, solution,
                   roundVars>>

\* the response has gone out; another learner submits the same answer with
\* ' + C' written after it, for the same problem
SubmitAgain ==
    /\ pc = "sb_done"
    /\ round = 1
    /\ response.handler = "api"
    /\ answer # <<>>
    /\ Modelled(answer \o SpacePlusSpaceC)
    /\ round' = 2
    /\ first_retval' = response.is_correct
    /\ answer' = answer \o SpacePlusSpaceC
    /\ response' = [NoResponse EXCEPT !.handler = "api"]
    /\ user_answer' = NoneValue
    /\ correct_answer' = NoneValue
    /\ EquivReset
    /\ pc' = "sb_parse"
    /\ UNCHANGED <<parseVars, normVars, renderVars, solution, first_var>>

\* the response has gone out
SubmitReturn ==
    /\ pc = "sb_done"
    /\ pc' = "idle"
    /\ answer' = <<>>
    /\ solution' = <<>>
    /\ response' = NoResponse
    /\ round' = 1
    /\ first_retval' = "pending"
    /\ user_answer' = NoneValue
    /\ correct_answer' = NoneValue
    /\ EquivReset
    /\ UNCHANGED <<parseVars, normVars, renderVars, first_var>>

SubmitNext ==
    \/ SubmitCall
    \/ IndexCall
    \/ SubmitParse
    \/ SubmitCheck
    \/ EquivNoneCheck
    \/ EquivSympify
    \/ EquivVariables
    \/ EquivPickVar
    \/ EquivPrimary
    \/ EquivFallback
    \/ EquivExcept
    \/ SubmitRespond
    \/ SubmitAgain
    \/ SubmitReturn

SubmitSpec == Init /\ [][SubmitNext]_vars

(***************************************************************************)
(* is_equivalent_up_to_constant evaluated twice on the same pair, each     *)
(* time by whichever worker process takes the request                      *)
(***************************************************************************)
\* the first evaluation has returned; the same pair is evaluated again
RepeatAgain ==
    /\ pc = "eq_done"
    /\ round = 1
    /\ round' = 2
    /\ first_var' = var
    /\ first_retval' = retval
    /\ EquivReset
    /\ pc' = "eq_none_check"
    /\ UNCHANGED <<user_answer, correct_answer, parseVars, normVars, renderVars,
                   submitVars>>

\* the second evaluation has returned
RepeatReturn ==
    /\ pc = "eq_done"
    /\ round = 2
    /\ pc' = "idle"
    /\ round' = 1
    /\ first_var' = NoVar
    /\ first_retval' = "pending"
    /\ user_answer' = NoneValue
    /\ correct_answer' = NoneValue
    /\ EquivReset
    /\ UNCHANGED <<parseVars, normVars, renderVars, submitVars>>

RepeatNext ==
    \/ CallEquivalent
    \/ EquivNoneCheck
    \/ EquivSympify
    \/ EquivVariables
    \/ EquivPickVar
    \/ EquivPrimary
    \/ EquivFallback
    \/ EquivExcept
    \/ RepeatAgain
    \/ RepeatReturn

RepeatSpec == Init /\ [][RepeatNext]_vars

(***************************************************************************)
(* Properties of is_equivalent_up_to_constant                              *)
(***************************************************************************)
EquivDone == pc = "eq_done"

Absent(e) == e.kind = "none"

\* the symbols of a polynomial other than C
NonCSymbols(p) == PolySymbols(p) \ {"C"}

\* C1: a call with an absent (None) argument, first, second or both, returns
\* false, and it neither differentiates nor simplifies nor enters the try block.
C1_AbsentIsFalse ==
    (pc \in {"eq_sympify", "eq_variables", "eq_pick", "eq_primary", "eq_fallback",
             "eq_except", "eq_done"}
        /\ (Absent(user_answer) \/ Absent(correct_answer)))
    => /\ EquivDone
       /\ retval = "false"
       /\ ~diffCalled
       /\ ~simplifyCalled
       /\ raised = "none"

\* C1 witness: is_equivalent_up_to_constant(x^2, None) has returned false
C1_Witness ==
    /\ EquivDone
    /\ user_answer = Expr(Term("xx"))
    /\ Absent(correct_answer)
    /\ retval = "false"

\* C2: two present arguments whose free symbols, C removed, are empty always
\* give true.
C2_ConstantsEquivalent ==
    (EquivDone /\ IsPresent(user_answer) /\ IsPresent(correct_answer)
        /\ NonCSymbols(user_answer.lhs) \cup NonCSymbols(user_answer.rhs) = {}
        /\ NonCSymbols(correct_answer.lhs) \cup NonCSymbols(correct_answer.rhs) = {})
    => retval = "true"

\* C2 witness: C against a number has returned true without differentiating
C2_Witness ==
    /\ EquivDone
    /\ user_answer = Expr(Term("C"))
    /\ correct_answer = Expr(Term(One))
    /\ retval = "true"
    /\ ~diffCalled

\* p and q differ by a number only
DifferByNumber(p, q) == \A m \in Monos : m # One => p[m] = q[m]

C4_Soundness ==
    (EquivDone /\ user_answer.kind = "expr" /\ correct_answer.kind = "expr"
        /\ retval = "true")
    => NonCSymbols(PSub(user_answer.lhs, correct_answer.lhs)) = {}

\* C5: an exception raised inside the try block (by sympify, the subtraction,
\* simplify, in the primary or the fallback test) never leaves the function,
\* and the call returns false.
C5_ExceptionsCaught ==
    /\ ~escaped
    /\ (EquivDone /\ raised # "none") => retval = "false"

\* C5 witness: the subtraction of the fallback test raised, after the primary
\* test had simplified a non-zero difference, and the call returned false
C5_Witness ==
    /\ EquivDone
    /\ raised = "subtract"
    /\ simplifyCalled
    /\ difference.kind = "opaque"
    /\ retval = "false"


(***************************************************************************)
(* Properties of parse_latex_safely                                        *)
(***************************************************************************)
ParseDone == pc = "pl_done"

\* the call has passed the checks of utils.py:86-106, one way or the other
PastValidation == pc \in {"pl_repair", "pl_inject", "pl_parse", "pl_except", "pl_done"}

\* C6: parse_latex_safely never raises and returns an expression or None; an
\* empty or blank input, a refused input and an exception of the import or of
\* the parser all give the same None.
C6_FailClosed ==
    /\ ~parse_escaped
    /\ ParseDone => parse_ret \in {"None", "expr"}
    /\ (ParseDone /\ (Validate(latex_in) # "ok" \/ parse_raised # "none"))
          => parse_ret = "None"
    /\ (ParseDone /\ \A i \in 1..Len(latex_in) : latex_in[i] \in Whitespace)
          => (parse_ret = "None" /\ ~parserCalled)

\* C6 witness: the external parser raised on an accepted input and the call
\* returned None
C6_Witness ==
    /\ ParseDone
    /\ parse_raised = "parser"
    /\ parserCalled
    /\ Len(parser_arg) > 0
    /\ parse_ret = "None"

\* the text holds a denylisted macro name, in whatever letter case
HoldsDeniedMacro(text) ==
    \E n \in DOMAIN dangerous_patterns :
        \E i \in 1..Len(text) :
            /\ i + Len(dangerous_patterns[n]) - 1 <= Len(text)
            /\ \A k \in 1..Len(dangerous_patterns[n]) :
                   LowerChar(text[i + k - 1]) = dangerous_patterns[n][k]

\* C7: an input that holds a denylisted macro name anywhere, in any letter
\* case, gives None; it is refused before the repair and the parser is never
\* called on it.
C7_DenylistRejects ==
    (PastValidation /\ HoldsDeniedMacro(latex_in))
    => /\ ParseDone
       /\ parse_ret = "None"
       /\ ~parserCalled
       /\ latex_str = <<>>

\* C7 witness: x\LeT( has been refused
C7_Witness ==
    /\ ParseDone
    /\ latex_in = <<"x", "\\", "L", "e", "T", "(">>
    /\ parse_ret = "None"
    /\ ~parserCalled

\* C8 (as claimed): every input longer than 1000 characters gives None and
\* never reaches the parser.
C8_LongInputRejected ==
    (PastValidation /\ Len(latex_in) > MaxLatexLen)
    => (ParseDone /\ parse_ret = "None" /\ ~parserCalled)

\* C8 (amended): every input whose length without leading and trailing
\* whitespace exceeds 1000 characters gives None and never reaches the parser.
C8_LongTrimmedInputRejected ==
    (PastValidation /\ Len(strip(latex_in)) > MaxLatexLen)
    => (ParseDone /\ parse_ret = "None" /\ ~parserCalled)

\* C8 witness: an input of 1002 characters, 1001 of them after a leading
\* space, has been refused
C8_Witness ==
    /\ ParseDone
    /\ Len(latex_in) = MaxLatexLen + 2
    /\ latex_in[1] = " "
    /\ Len(strip(latex_in)) = MaxLatexLen + 1
    /\ parse_ret = "None"
    /\ ~parserCalled

\* the text holds one of '+C', '+ C', '-C', '- C' or an equals sign
HoldsConstantOrEquals(text) ==
    \E i \in 1..Len(text) :
        IF text[i] = "=" THEN TRUE
        ELSE IF text[i] \notin {"+", "-"} THEN FALSE
        ELSE \/ (i + 1 <= Len(text) /\ text[i + 1] = "C")
             \/ (i + 2 <= Len(text) /\ text[i + 1] = " " /\ text[i + 2] = "C")

\* C9: the text handed to the parser is the repaired text with ' + C' put at
\* its end exactly when the repaired text holds no '=' and none of '+C',
\* '+ C', '-C', '- C', and the repaired text as it is otherwise.
C9_ConstantInjection ==
    parserCalled =>
        LET repaired == Repair(latex_in)
        IN  parser_arg = IF HoldsConstantOrEquals(repaired)
                         THEN repaired
                         ELSE repaired \o <<" ", "+", " ", "C">>

\* C9 witness: +Cos( holds '+C' as written but not once repaired to +\cos(,
\* and the parser got +\cos( + C
C9_Witness ==
    /\ parserCalled
    /\ latex_in = <<"+", "C", "o", "s", "(">>
    /\ parser_arg = <<"+", "\\", "c", "o", "s", "(", " ", "+", " ", "C">>

\* the name, in any letter case, stands in the text at index i before a '('
NameAt(text, name, i) ==
    /\ i >= 1
    /\ i + Len(name) <= Len(text)
    /\ \A k \in 1..Len(name) : LowerChar(text[i + k - 1]) = name[k]
    /\ text[i + Len(name)] = "("

BackslashBefore(text, i) == i > 1 /\ text[i - 1] = "\\"

LetterBefore(text, i) == i > 1 /\ text[i - 1] \in Letters

\* the name at index i is the tail of an inverse-function name
TailOfArcName(text, i) ==
    /\ i > 3
    /\ LowerChar(text[i - 3]) = "a"
    /\ LowerChar(text[i - 2]) = "r"
    /\ LowerChar(text[i - 1]) = "c"

\* the places where a letter is followed by a backslash and a basic function
\* name with its '('
SlashedTails(text) ==
    {i \in 2..Len(text) :
        /\ text[i] = "\\"
        /\ text[i - 1] \in Letters
        /\ \E n \in DOMAIN BasicNames : NameAt(text, BasicNames[n], i + 1)}

\* the places where two backslashes follow each other
DoubledBackslashes(text) ==
    {i \in 2..Len(text) : text[i] = "\\" /\ text[i - 1] = "\\"}

\* the places of a split form \arc\f, f followed by the end or a non-word character
SplitForms(text) ==
    {i \in 1..Len(text) :
        /\ i + 7 <= Len(text)
        /\ SubSeq(text, i, i + 4) = <<"\\", "a", "r", "c", "\\">>
        /\ SubSeq(text, i + 5, i + 7) \in SplitNames
        /\ (i + 8 <= Len(text) => text[i + 8] \notin WordChars)}

\* the text in lower case without its backslashes
Unslashed(text) ==
    LET low == [i \in 1..Len(text) |-> LowerChar(text[i])]
    IN  SelectSeq(low, LAMBDA c : c # "\\")

\* the repair has just run: latex_str is the repaired text
Repaired == pc = "pl_inject"

\* C10 (as claimed): after the repair every listed function name that is
\* directly followed by '(' has its backslash, the sin, cos and tan that end
\* an inverse-function name aside.
C10_EveryNameRepaired ==
    Repaired =>
        \A i \in 1..Len(latex_str) :
            /\ \A n \in DOMAIN ArcNames :
                  NameAt(latex_str, ArcNames[n], i) => BackslashBefore(latex_str, i)
            /\ \A n \in DOMAIN BasicNames :
                  NameAt(latex_str, BasicNames[n], i)
                     => (BackslashBefore(latex_str, i) \/ TailOfArcName(latex_str, i))

\* C10 (amended): after the repair an inverse-function name followed by '('
\* always has its backslash, and a basic name (sin, cos, tan, ln, log)
\* followed by '(' has a backslash or a letter before it (the repair leaves a
\* basic name alone that directly follows a letter, as in xsin(); the split
\* forms \arc\f of the trimmed input are joined, and one is left in the result
\* only in front of a backslash the repair has added; no backslash has been put
\* between a letter and a basic name, none has been doubled, and the text is
\* otherwise the trimmed input.
C10_Repair ==
    Repaired =>
        /\ \A i \in 1..Len(latex_str) :
              /\ \A n \in DOMAIN ArcNames :
                    NameAt(latex_str, ArcNames[n], i) => BackslashBefore(latex_str, i)
              /\ \A n \in DOMAIN BasicNames :
                    NameAt(latex_str, BasicNames[n], i)
                       => (BackslashBefore(latex_str, i) \/ LetterBefore(latex_str, i))
        /\ SplitForms(FixSplit(strip(latex_in))) = {}
        /\ \A i \in SplitForms(latex_str) :
              i + 8 <= Len(latex_str) /\ latex_str[i + 8] = "\\"
        /\ Cardinality(SlashedTails(latex_str)) <= Cardinality(SlashedTails(latex_in))
        /\ Cardinality(DoubledBackslashes(latex_str))
              <= Cardinality(DoubledBackslashes(latex_in))
        /\ Unslashed(latex_str) = Unslashed(strip(latex_in))

\* C10 witness: arcsin( has been repaired to \arcsin(
C10_Witness ==
    /\ Repaired
    /\ latex_in = <<"a", "r", "c", "s", "i", "n", "(">>
    /\ latex_str = <<"\\", "a", "r", "c", "s", "i", "n", "(">>

(***************************************************************************)
(* Properties of the normalisation steps                                   *)
(***************************************************************************)
\* both passes of the normalisation steps have run
NormalizedTwice == pc = "nm_done" /\ norm_once.status = "ok"

\* the text ends in '+ C' and all control words are present: no split form,
\* and every listed function name followed by '(' has its backslash
EndsInConstant(text) ==
    /\ Len(text) >= 3
    /\ SubSeq(text, Len(text) - 2, Len(text)) = <<"+", " ", "C">>
    /\ SplitForms(text) = {}
    /\ \A i \in 1..Len(text) :
          /\ \A n \in DOMAIN ArcNames :
                NameAt(text, ArcNames[n], i) => BackslashBefore(text, i)
          /\ \A n \in DOMAIN BasicNames :
                NameAt(text, BasicNames[n], i) => BackslashBefore(text, i)

\* C11 (as claimed): a trimmed text without a denylisted macro that already
\* ends in '+ C' and has all control words present is normalised to itself,
\* and the output of a successful normalisation is normalised to that same
\* output, never refused.
C11_Idempotent ==
    /\ (pc \in {"nm_second", "nm_done"} /\ EndsInConstant(norm_in)
           /\ strip(norm_in) = norm_in /\ ~HoldsDeniedMacro(norm_in))
          => norm_once = [status |-> "ok", text |-> norm_in]
    /\ NormalizedTwice => norm_twice = norm_once

\* C11 (amended): a trimmed text of at most 1000 characters without a
\* denylisted macro that already ends in '+ C' and has all control words
\* present is normalised to itself; the output of a successful normalisation
\* is refused by a second pass exactly when the first pass has taken it beyond
\* 1000 characters (as too long, never as empty or dangerous), and otherwise
\* is normalised to itself when it holds no split form \arc\f.
C11_Renormalize ==
    /\ (pc \in {"nm_second", "nm_done"} /\ EndsInConstant(norm_in)
           /\ strip(norm_in) = norm_in /\ Len(norm_in) <= MaxLatexLen
           /\ ~HoldsDeniedMacro(norm_in))
          => norm_once = [status |-> "ok", text |-> norm_in]
    /\ NormalizedTwice =>
          /\ norm_twice.status =
                IF Len(norm_once.text) > MaxLatexLen THEN "too_long" ELSE "ok"
          /\ (norm_twice.status = "ok" /\ SplitForms(norm_once.text) = {})
                => norm_twice.text = norm_once.text

\* C11 witness: arcsin( has become \arcsin( + C, and the second pass has
\* left that text as it is
C11_Witness ==
    /\ NormalizedTwice
    /\ norm_in = <<"a", "r", "c", "s", "i", "n", "(">>
    /\ norm_once.text = <<"\\", "a", "r", "c", "s", "i", "n", "(", " ", "+", " ", "C">>
    /\ norm_twice = norm_once

(***************************************************************************)
(* Properties of sympy_to_latex                                            *)
(***************************************************************************)
RenderDone == pc = "rl_done"

\* C is a free symbol of the expression, a sum of monomials
HoldsC(e) == e.kind = "expr" /\ CSymbol \in free_symbols(e)

\* the coefficient of C in the expression is a number
NumericCoeff(e) == e.lhs["xC"] = 0

\* C13: for an expression without C the result is the default rendering;
\* otherwise, with R the rendering of the expression with C set to 0 and k
\* the coefficient of C, a number, the result is 'R + C' for k = 1, 'R - C'
\* for k = -1, 'R + k C' for k > 1 and 'R k C' for k < -1; for k = 1 it ends
\* in ' + C' and holds no other C.
C13_CanonicalRendering ==
    RenderDone =>
        /\ CSymbol \notin free_symbols(expr) => render_ret = latex(expr)
        /\ (HoldsC(expr) /\ NumericCoeff(expr)) =>
              LET R == latex(Expr([m \in Monos |->
                                     IF m \in {"C", "xC", "CC"} THEN 0 ELSE expr.lhs[m]]))
                  k == expr.lhs["C"]
              IN  /\ k = 1 =>
                        /\ render_ret = R \o <<" ", "+", " ", "C">>
                        /\ \A i \in 1..(Len(render_ret) - 1) : render_ret[i] # "C"
                  /\ k = -1 => render_ret = R \o <<" ", "-", " ", "C">>
                  /\ k > 1 => render_ret = R \o <<" ", "+", " ">> \o IntText(k) \o <<" ", "C">>
                  /\ k < -1 => render_ret = R \o <<" ">> \o IntText(k) \o <<" ", "C">>

\* C13 witness: C + x**2, which the default rendering gives as C + x^{2}, has
\* been rendered as x^{2} + C
C13_Witness ==
    /\ RenderDone
    /\ expr = Expr(PAdd(Term("C"), Term("xx")))
    /\ latex(expr) = <<"C", " ", "+", " ", "x", "^", "{", "2", "}">>
    /\ render_ret = <<"x", "^", "{", "2", "}", " ", "+", " ", "C">>

\* C14 (as claimed): when the extraction of the coefficient or the rendering
\* raised, the result is the default LaTeX rendering of the whole expression.
C14_ExceptionGivesDefault ==
    (RenderDone /\ render_raised # "none") => render_ret = latex(expr)

\* C15 (as claimed): an expression that holds C but is not affine in C is
\* given its default rendering.
C15_NonAffineGivesDefault ==
    (RenderDone /\ HoldsC(expr) /\ expr.lhs["CC"] # 0) => render_ret = latex(expr)

(***************************************************************************)
(* Properties of the handlers                                              *)
(***************************************************************************)
Responded == pc = "sb_done"

\* the answer of the first learner: the text in front of the ' + C' the
\* second learner wrote
FirstAnswer == SubSeq(answer, 1, Len(answer) - Len(SpacePlusSpaceC))

\* C12 (as claimed): for an accepted text t without an equals sign and a
\* reference r, submitting t and submitting t followed by ' + C' get the same
\* verdict.
C12_SameVerdictWithConstant ==
    (Responded /\ round = 2 /\ ~Contains(FirstAnswer, Equals)
        /\ ParseSafely(FirstAnswer).kind # "none")
    => response.is_correct = first_retval

(***************************************************************************)
(* The decision of is_equivalent_up_to_constant                            *)
(***************************************************************************)
\* the call picked a variable and nothing raised
Decided == EquivDone /\ var # NoVar /\ raised = "none"

\* the primary test found the derivatives equal
PrimarySucceeded == difference.kind = "expr" /\ difference.lhs = Zero

\* the fallback test was evaluated
FallbackRan == expr_difference.kind # "none"

\* C16: for two present arguments with a candidate variable and no
\* exception, the result is true exactly when the simplified difference of
\* the derivatives is zero or the simplified direct difference has no free
\* symbol other than C; the fallback is evaluated only after the primary test
\* has failed, and the result is false when neither test succeeds.
C16_DecisionStructure ==
    Decided =>
        /\ retval \in {"true", "false"}
        /\ retval = "true" <=>
              \/ PrimarySucceeded
              \/ (FallbackRan /\ NonCSymbols(expr_difference.lhs) = {})
        /\ FallbackRan => ~PrimarySucceeded
        /\ ~PrimarySucceeded => FallbackRan
        /\ (user_answer.kind = "expr" /\ correct_answer.kind = "expr") =>
              /\ difference = Expr(PSub(PDiff(user_answer.lhs, var),
                                        PDiff(correct_answer.lhs, var)))
              /\ FallbackRan =>
                    expr_difference = Expr(PSub(user_answer.lhs, correct_answer.lhs))
              /\ retval = "true" <=>
                    \/ PSub(PDiff(user_answer.lhs, var), PDiff(correct_answer.lhs, var)) = Zero
                    \/ NonCSymbols(PSub(user_answer.lhs, correct_answer.lhs)) = {}

\* C16 witness: x*x against x: the derivatives differ, the fallback test ran
\* on x*x - x and the call returned false
C16_Witness ==
    /\ Decided
    /\ user_answer = Expr(Term("xx"))
    /\ correct_answer = Expr(Term("x"))
    /\ ~PrimarySucceeded
    /\ FallbackRan
    /\ retval = "false"

\* C17 (as claimed): C is never picked as the variable to differentiate by,
\* and a pair of expressions with two or more candidate variables gets the
\* same variable, and so the same verdict, on every evaluation.
C17_SameVariableEveryCall ==
    /\ var # CSymbol
    /\ (EquivDone /\ round = 2
           /\ user_answer.kind = "expr" /\ correct_answer.kind = "expr"
           /\ Cardinality(main_variables(user_answer, correct_answer)) >= 2)
          => (var = first_var /\ retval = first_retval)

\* both texts of the request have been parsed and the response is out
RespondedParsed == Responded /\ solution # <<>>

\* C18: a learner's answer that parse_latex_safely turns into None is
\* reported as an invalid mathematical expression, with is_correct false and
\* never with status 500, also when the reference cannot be parsed either;
\* the 500 'Server error' goes out only when the learner's answer was parsed
\* and the reference was not; is_correct is true only when both were parsed
\* and is_equivalent_up_to_constant returned true.
C18_LearnerErrorFirst ==
    /\ RespondedParsed =>
          LET u == ParseSafely(answer)
              t == ParseSafely(solution)
          IN  /\ u.kind = "none" =>
                    /\ response.code = 200
                    /\ response.is_correct # "true"
                    /\ ~response.success
                    /\ response.handler = "api" =>
                          /\ response.message = "Invalid mathematical expression"
                          /\ response.is_correct = "false"
                    /\ response.handler = "index" =>
                          response.message
                             = "Invalid mathematical expression. Please check your input."
              /\ response.message = "Server error" <=>
                    (response.handler = "api" /\ u.kind # "none" /\ t.kind = "none")
              /\ response.is_correct = "true" =>
                    (u.kind # "none" /\ t.kind # "none" /\ retval = "true")
    /\ response.message = "Server error" => (response.code = 500 /\ RespondedParsed)
    /\ response.is_correct = "true" => RespondedParsed

\* C18 witness: the sanitizer refused the learner's answer, the parser failed
\* on the reference, and the response is the one for an invalid expression
C18_Witness ==
    /\ RespondedParsed
    /\ response.handler = "api"
    /\ answer = DeniedText
    /\ solution = <<"=">>
    /\ ParseSafely(solution).kind = "none"
    /\ response.code = 200
    /\ response.message = "Invalid mathematical expression"
    /\ response.is_correct = "false"

====
